---- MODULE Spec2Model ----
(***************************************************************************)
(* The record store of the Student Finance Tracker (scripts/state.js), the  *)
(* localStorage transport it persists through (scripts/storage.js), the    *)
(* validators (scripts/validators.js), the search helpers                  *)
(* (scripts/search.js) and the page that drives them (scripts/app.js,      *)
(* scripts/ui.js).                                                         *)
(*                                                                         *)
(* JavaScript values are tagged tuples, so that values of different types  *)
(* are comparable and never equal:                                         *)
(*   <<"undefined">>            undefined, also a property that is missing *)
(*   <<"string", chars>>        a string, chars a sequence of 1-char strings*)
(*   <<"number", n>>            the integer n                              *)
(*   <<"decimal", n, h>>        the number n + h/100, 0 < h < 100          *)
(*   <<"NaN">>                  NaN                                        *)
(*   <<"Infinity">>             Infinity                                   *)
(*   <<"null">>                 null                                       *)
(*   <<"rec", t, c>>            the string `rec_${t}_${c.toString(36)}`    *)
(*   <<"ext", k>>               a string id that is not of the rec_ form   *)
(*   <<"time", t>>              the ISO timestamp of millisecond t         *)
(*   <<"date", d>>              the YYYY-MM-DD string of day d             *)
(* An object is a record of its seven properties plus                      *)
(*   kind  "object", "primitive" (a number, string or boolean element) or  *)
(*         "null";                                                         *)
(* The objects of the collection are told apart by their position in it:  *)
(* a reference the caller holds is the index of the object it points to.  *)
(***************************************************************************)
EXTENDS Integers, Sequences, FiniteSets, TLC

\* Bounds of the model.
MaxLen == 2       \* longest collection / input list
MaxClock == 2     \* Date.now() ranges over 1..MaxClock
MaxFailures == 1  \* cap on the number of failing localStorage writes
MaxCounter == MaxLen + 1   \* cap on _counter

VARIABLES
  _records,   \* state.js:9   the in-memory collection (sequence of objects)
  _counter,   \* state.js:10  the id counter
  stored,     \* localStorage['sft:records'], as [kind, items]
  clock,      \* the current value of Date.now()
  pc,         \* "loaded" (module evaluated), "fetching" (init suspended), "ready"
  last,       \* the last store call, its arguments and what it returned
  failures,   \* the number of localStorage writes that have failed
  held,       \* what the caller keeps of the value the store handed it
  ended,      \* the collection the previous page load ended with, when its
              \* last call was a deleteRecord that was persisted
  form,       \* ui.js: the inputs, the edit id and the status of #recordForm
  view,       \* ui.js: the bindings, the search box and the rendered record list
  event,      \* the UI event the last step handled, if it handled one
  pure        \* the last call of a pure export, its arguments and its result

\* The page and the calls of pure exports.
dom == <<form, view, pure>>

vars == <<_records, _counter, stored, clock, pc, last, failures, held, ended,
          form, view, event, pure>>

----------------------------------------------------------------------------
\* JavaScript values

Undef == <<"undefined">>
Null == <<"null">>
NaN == <<"NaN">>
Infinity == <<"Infinity">>
Str(s) == <<"string", s>>
Num(n) == <<"number", n>>
Time(t) == <<"time", t>>
Date(d) == <<"date", d>>

Fields == {"id", "description", "amount", "category", "date", "createdAt", "updatedAt"}

\* JavaScript truthiness of the values above.
Truthy(v) ==
  /\ v # Undef
  /\ v # Null
  /\ v # NaN
  /\ v # Str(<<>>)
  /\ v # Num(0)

IsDigit(c) == c \in {"0", "1", "2", "3", "4", "5", "6", "7", "8", "9"}

DigitVal(c) ==
  CASE c = "0" -> 0 [] c = "1" -> 1 [] c = "2" -> 2 [] c = "3" -> 3 [] c = "4" -> 4
    [] c = "5" -> 5 [] c = "6" -> 6 [] c = "7" -> 7 [] c = "8" -> 8 [] c = "9" -> 9

\* String.prototype.trim on a sequence of characters.
RECURSIVE TrimLeft(_)
TrimLeft(s) == IF s # <<>> /\ Head(s) = " " THEN TrimLeft(Tail(s)) ELSE s

RECURSIVE TrimRight(_)
TrimRight(s) ==
  IF s # <<>> /\ s[Len(s)] = " " THEN TrimRight(SubSeq(s, 1, Len(s) - 1)) ELSE s

Trim(s) == TrimRight(TrimLeft(s))

RECURSIVE DigitsValue(_)
DigitsValue(s) ==
  IF s = <<>> THEN 0 ELSE 10 * DigitsValue(SubSeq(s, 1, Len(s) - 1)) + DigitVal(s[Len(s)])

\* a || b
Or(a, b) == IF Truthy(a) THEN a ELSE b

\* String(v) for the strings of the model (the only truthy descriptions and
\* categories the model draws are strings).
ToStr(v) == IF v[1] = "string" THEN v[2] ELSE <<>>

\* Number(v) for undefined, null, numbers and strings of digits and blanks.
ToNumber(v) ==
  CASE v[1] = "number" -> v
    [] v[1] = "decimal" -> v
    [] v[1] = "Infinity" -> v
    [] v[1] = "null" -> Num(0)
    [] v[1] = "string" ->
         IF \A i \in 1..Len(Trim(v[2])) : IsDigit(Trim(v[2])[i])
         THEN Num(DigitsValue(Trim(v[2])))
         ELSE NaN
    [] OTHER -> NaN

----------------------------------------------------------------------------
\* Objects

Obj(id, description, amount, category, date, createdAt, updatedAt) ==
  [kind |-> "object", id |-> id, description |-> description,
   amount |-> amount, category |-> category, date |-> date,
   createdAt |-> createdAt, updatedAt |-> updatedAt]

EmptyObj == Obj(Undef, Undef, Undef, Undef, Undef, Undef, Undef)

\* A number, string or boolean element: every property read gives undefined.
Primitive == [EmptyObj EXCEPT !.kind = "primitive"]

\* null: a property read throws TypeError.
NullValue == [EmptyObj EXCEPT !.kind = "null"]

\* JSON.stringify followed by JSON.parse of one value: NaN and Infinity become
\* null.
JsonValue(v) == IF v \in {NaN, Infinity} THEN Null ELSE v

\* JSON.stringify followed by JSON.parse of one record: the properties that are
\* undefined are dropped (they read as undefined again), the others are
\* converted.
JsonRecord(r) ==
  [kind |-> r.kind, id |-> JsonValue(r.id),
   description |-> JsonValue(r.description), amount |-> JsonValue(r.amount),
   category |-> JsonValue(r.category), date |-> JsonValue(r.date),
   createdAt |-> JsonValue(r.createdAt), updatedAt |-> JsonValue(r.updatedAt)]

JsonList(rs) == [i \in 1..Len(rs) |-> JsonRecord(rs[i])]

Ids(rs) == {rs[i].id : i \in 1..Len(rs)}

\* Date.now(), new Date().toISOString() and its first ten characters. Two
\* consecutive milliseconds of the model fall on the same day.
Now == Time(clock)
Today == Date((clock + 1) \div 2)

----------------------------------------------------------------------------
\* scripts/storage.js

NoItem == [kind |-> "absent", items |-> <<>>]

\* loadRecords(): [] unless the stored text parses to an array.
loadRecords(st) == IF st.kind = "list" THEN st.items ELSE <<>>

\* saveRecords removing the item when the write fails.
saveRecordsLossy(st, data, ok) ==
  IF ok THEN [kind |-> "list", items |-> JsonList(data)] ELSE NoItem

\* saveRecords(data): setItem throws (quota, disabled storage) when ~ok; the
\* error is caught and logged.
saveRecords(st, data, ok) ==
  IF ok THEN [kind |-> "list", items |-> JsonList(data)] ELSE st

----------------------------------------------------------------------------
\* scripts/state.js

\* genId() when _counter = cnt: ++_counter is cnt + 1.
genId(cnt) == <<"rec", clock, cnt + 1>>

\* normalise(r) when _counter = cnt. Not defined for null (the read of r.id
\* throws).
normalise(r, cnt) ==
  [kind        |-> "object",
   id          |-> IF Truthy(r.id) THEN r.id ELSE genId(cnt),
   description |-> Str(Trim(ToStr(Or(r.description, Str(<<>>))))),
   amount      |-> Or(ToNumber(r.amount), Num(0)),
   category    |-> Str(Trim(ToStr(Or(r.category, Str(<<"O", "t", "h", "e", "r">>))))),
   date        |-> Or(r.date, Today),
   createdAt   |-> Or(r.createdAt, Now),
   updatedAt   |-> Or(r.updatedAt, Now)]

\* The number of genId() calls normalise makes for the first n elements.
GenCalls(rs, n) == Cardinality({j \in 1..n : ~Truthy(rs[j].id)})

\* The index of the first null element, 0 if there is none.
FirstNull(rs) ==
  IF \E i \in 1..Len(rs) : rs[i].kind = "null"
  THEN CHOOSE i \in 1..Len(rs) :
         /\ rs[i].kind = "null"
         /\ \A j \in 1..(i - 1) : rs[j].kind # "null"
  ELSE 0

\* rs.map(normalise) for a list without null elements.
MapNormalise(rs, cnt) ==
  [i \in 1..Len(rs) |-> normalise(rs[i], cnt + GenCalls(rs, i - 1))]

\* A test that takes every argument for an array.
isArrayAny(arg) == TRUE

\* Array.isArray(arg)
isArray(arg) == arg.isList

\* A test that reports a removal every time.
lengthChangedAlways(before, after) == TRUE

\* _records.length !== before
lengthChanged(before, after) == Len(after) # Len(before)

\* _records.findIndex(r => r.id === id), 0 for -1.
findIndex(rs, id) ==
  IF \E i \in 1..Len(rs) : rs[i].id = id
  THEN CHOOSE i \in 1..Len(rs) :
         /\ rs[i].id = id
         /\ \A j \in 1..(i - 1) : rs[j].id # id
  ELSE 0

\* _records.filter(r => r.id !== id)
RECURSIVE filterOut(_, _)
filterOut(rs, id) ==
  IF rs = <<>> THEN <<>>
  ELSE IF Head(rs).id # id THEN <<Head(rs)>> \o filterOut(Tail(rs), id)
  ELSE filterOut(Tail(rs), id)

\* { ...rec, ...upd }: a property upd does not carry is Absent.
Absent == <<"absent">>

spread(rec, upd) ==
  [f \in DOMAIN rec |-> IF f \in Fields /\ upd[f] # Absent THEN upd[f] ELSE rec[f]]

----------------------------------------------------------------------------
\* scripts/search.js

\* The characters of the strings the page shows and searches: those of a
\* string, and YYYY-MM-DD for a date (day d of January 2024).
DigitChar(n) ==
  CASE n = 0 -> "0" [] n = 1 -> "1" [] n = 2 -> "2" [] n = 3 -> "3" [] n = 4 -> "4"
    [] n = 5 -> "5" [] n = 6 -> "6" [] n = 7 -> "7" [] n = 8 -> "8" [] n = 9 -> "9"

Chars(v) ==
  CASE v[1] = "string" -> v[2]
    [] v[1] = "date" -> <<"2", "0", "2", "4", "-", "0", "1", "-", "0", DigitChar(v[2])>>
    [] OTHER -> <<>>

UpperCase ==
  <<"A", "B", "C", "D", "E", "F", "G", "H", "I", "J", "K", "L", "M", "N", "O", "P",
    "Q", "R", "S", "T", "U", "V", "W", "X", "Y", "Z">>

LowerCase ==
  <<"a", "b", "c", "d", "e", "f", "g", "h", "i", "j", "k", "l", "m", "n", "o", "p",
    "q", "r", "s", "t", "u", "v", "w", "x", "y", "z">>

\* The character a matcher with the i flag compares in place of c.
Lower(c) ==
  IF \E i \in 1..26 : UpperCase[i] = c
  THEN LowerCase[CHOOSE i \in 1..26 : UpperCase[i] = c]
  ELSE c

\* The patterns of the model are made of literal characters and of "(", which
\* nothing closes: new RegExp throws SyntaxError on a pattern that has one.
ValidPattern(p) == \A i \in 1..Len(p) : p[i] # "("

NoMatcher == [null |-> TRUE, source |-> <<>>, flags |-> {}]

\* compileRegex(input, flags)
compileRegex(input, flags) ==
  IF input = <<>> \/ Trim(input) = <<>> THEN NoMatcher
  ELSE IF ValidPattern(Trim(input))
       THEN [null |-> FALSE, source |-> Trim(input), flags |-> flags]
       ELSE NoMatcher

\* The literal pattern of re matches text at position i.
MatchAt(text, re, i) ==
  /\ i + Len(re.source) - 1 <= Len(text)
  /\ \A k \in 1..Len(re.source) :
       IF "i" \in re.flags
       THEN Lower(text[i + k - 1]) = Lower(re.source[k])
       ELSE text[i + k - 1] = re.source[k]

\* re.test(text) for a matcher without the g flag (no lastIndex is kept).
test(re, text) == \E i \in 1..Len(text) : MatchAt(text, re, i)

\* text.replace(re, m => <mark>m</mark>) from position i on: every match when
\* all, the first one otherwise.
RECURSIVE ReplaceFrom(_, _, _, _)
ReplaceFrom(text, re, i, all) ==
  IF i > Len(text) THEN <<>>
  ELSE IF MatchAt(text, re, i)
  THEN <<"<mark>">> \o SubSeq(text, i, i + Len(re.source) - 1) \o <<"</mark>">>
         \o (IF all THEN ReplaceFrom(text, re, i + Len(re.source), all)
             ELSE SubSeq(text, i + Len(re.source), Len(text)))
  ELSE <<text[i]>> \o ReplaceFrom(text, re, i + 1, all)

\* highlight(text, re): String.prototype.replace replaces every match only for
\* a matcher with the g flag.
highlight(text, re) ==
  IF re.null \/ text = <<>> THEN text
  ELSE ReplaceFrom(text, re, 1, "g" \in re.flags)

\* filterRecords(records, re)
RECURSIVE filterRecords(_, _)
filterRecords(records, re) ==
  IF re.null \/ records = <<>> THEN records
  ELSE IF \/ test(re, Chars(Or(Head(records).description, Str(<<>>))))
          \/ test(re, Chars(Or(Head(records).category, Str(<<>>))))
          \/ test(re, Chars(Or(Head(records).date, Str(<<>>))))
       THEN <<Head(records)>> \o filterRecords(Tail(records), re)
       ELSE filterRecords(Tail(records), re)

----------------------------------------------------------------------------
\* scripts/validators.js

IsSpace(c) == c = " "

\* [A-Za-z]
Letters == {UpperCase[i] : i \in 1..26} \cup {LowerCase[i] : i \in 1..26}

\* \w
IsWord(c) == c \in Letters \/ IsDigit(c) \/ c = "_"

AllDigits(s) == \A i \in 1..Len(s) : IsDigit(s[i])

\* The position of the first "." of s, 0 if it has none.
DotAt(s) ==
  IF \E i \in 1..Len(s) : s[i] = "."
  THEN CHOOSE i \in 1..Len(s) : s[i] = "." /\ \A j \in 1..(i - 1) : s[j] # "."
  ELSE 0

IntegerPart(s) == IF DotAt(s) = 0 THEN s ELSE SubSeq(s, 1, DotAt(s) - 1)
FractionPart(s) == IF DotAt(s) = 0 THEN <<>> ELSE SubSeq(s, DotAt(s) + 1, Len(s))

\* patterns.description: /^\S(?:.*\S)?$/
descriptionPattern(s) == s # <<>> /\ ~IsSpace(s[1]) /\ ~IsSpace(s[Len(s)])

\* patterns.amount: /^(0|[1-9]\d*)(\.\d{1,2})?$/
amountPattern(s) ==
  /\ IntegerPart(s) # <<>>
  /\ AllDigits(IntegerPart(s))
  /\ IntegerPart(s) = <<"0">> \/ IntegerPart(s)[1] # "0"
  /\ DotAt(s) # 0 => (Len(FractionPart(s)) \in {1, 2} /\ AllDigits(FractionPart(s)))

\* patterns.category: /^[A-Za-z]+(?:[ -][A-Za-z]+)*$/
categoryPattern(s) ==
  /\ s # <<>>
  /\ \A i \in 1..Len(s) : s[i] \in Letters \cup {" ", "-"}
  /\ s[1] \in Letters
  /\ s[Len(s)] \in Letters
  /\ \A i \in 1..(Len(s) - 1) : s[i] \in Letters \/ s[i + 1] \in Letters

\* patterns.date: /^\d{4}-(0[1-9]|1[0-2])-(0[1-9]|[12]\d|3[01])$/
datePattern(s) ==
  /\ Len(s) = 10
  /\ AllDigits(SubSeq(s, 1, 4))
  /\ s[5] = "-"
  /\ \/ s[6] = "0" /\ IsDigit(s[7]) /\ s[7] # "0"
     \/ s[6] = "1" /\ s[7] \in {"0", "1", "2"}
  /\ s[8] = "-"
  /\ \/ s[9] = "0" /\ IsDigit(s[10]) /\ s[10] # "0"
     \/ s[9] \in {"1", "2"} /\ IsDigit(s[10])
     \/ s[9] = "3" /\ s[10] \in {"0", "1"}

\* patterns.duplicateWord: /\b(\w+)\s+\1\b/i matches somewhere in s: a run of
\* n word characters from i after a word boundary, m blanks, the same run again
\* (letters compared without case) and a word boundary.
duplicateWordPattern(s) ==
  \E i \in 1..Len(s), n \in 1..Len(s), m \in 1..Len(s) :
    /\ i + 2 * n + m - 1 <= Len(s)
    /\ i = 1 \/ ~IsWord(s[i - 1])
    /\ \A k \in i..(i + n - 1) : IsWord(s[k])
    /\ \A k \in (i + n)..(i + n + m - 1) : IsSpace(s[k])
    /\ \A k \in 0..(n - 1) : Lower(s[i + n + m + k]) = Lower(s[i + k])
    /\ i + 2 * n + m - 1 = Len(s) \/ ~IsWord(s[i + 2 * n + m])

\* parseFloat(s) for a string that matches patterns.amount.
parseFloat(s) ==
  LET h == IF FractionPart(s) = <<>> THEN 0
           ELSE IF Len(FractionPart(s)) = 1 THEN 10 * DigitsValue(FractionPart(s))
           ELSE DigitsValue(FractionPart(s))
  IN IF h = 0 THEN Num(DigitsValue(IntegerPart(s)))
     ELSE <<"decimal", DigitsValue(IntegerPart(s)), h>>

\* validateForm with the category rule ahead of the others.
validateFormCategoryFirst(desc, amount, category, date) ==
  IF ~categoryPattern(category) THEN "category"
  ELSE IF ~descriptionPattern(desc) THEN "description"
  ELSE IF ~amountPattern(amount) THEN "amount"
  ELSE IF parseFloat(amount) = Num(0) THEN "zero"
  ELSE IF ~datePattern(date) THEN "date"
  ELSE IF duplicateWordPattern(desc) THEN "duplicate"
  ELSE "null"

\* validateForm({ desc, amount, category, date }): the error it returns, named
\* after its rule, "null" for null.
validateForm(desc, amount, category, date) ==
  IF ~descriptionPattern(desc) THEN "description"
  ELSE IF ~amountPattern(amount) THEN "amount"
  ELSE IF parseFloat(amount) = Num(0) THEN "zero"
  ELSE IF ~categoryPattern(category) THEN "category"
  ELSE IF ~datePattern(date) THEN "date"
  ELSE IF duplicateWordPattern(desc) THEN "duplicate"
  ELSE "null"

----------------------------------------------------------------------------
\* scripts/state.js: computeStats

\* Sums of amounts: a finite amount is a whole number of hundredths, and sums
\* of them are taken exactly.
Hundredths(v) == IF v[1] = "decimal" THEN 100 * v[2] + v[3] ELSE 100 * v[2]

FromHundredths(x) ==
  IF x % 100 = 0 THEN Num(x \div 100) ELSE <<"decimal", x \div 100, x % 100>>

\* a + b for two numbers
Plus(a, b) ==
  IF a = NaN \/ b = NaN THEN NaN
  ELSE IF a = Infinity \/ b = Infinity THEN Infinity
  ELSE FromHundredths(Hundredths(a) + Hundredths(b))

\* records.reduce((acc, r) => acc + Number(r.amount || 0), 0)
RECURSIVE SumAmounts(_)
SumAmounts(records) ==
  IF records = <<>> THEN Num(0)
  ELSE Plus(SumAmounts(SubSeq(records, 1, Len(records) - 1)),
            ToNumber(Or(records[Len(records)].amount, Num(0))))

\* r.category || 'Uncategorized', as the characters of the property key.
CategoryKey(r) ==
  Chars(Or(r.category,
           Str(<<"U", "n", "c", "a", "t", "e", "g", "o", "r", "i", "z", "e", "d">>)))

\* categoryMap[key]
CategoryCount(records, key) ==
  Cardinality({i \in 1..Len(records) : CategoryKey(records[i]) = key})

\* A property key that is an array index ("0", "7", "12"): Object.entries lists
\* such keys first, in ascending numeric order, whenever they were created.
IsIndexKey(key) ==
  key # <<>> /\ AllDigits(key) /\ (key = <<"0">> \/ key[1] # "0")

\* The keys of categoryMap in the order of their creation.
RECURSIVE InsertionOrder(_)
InsertionOrder(records) ==
  IF records = <<>> THEN <<>>
  ELSE LET before == InsertionOrder(SubSeq(records, 1, Len(records) - 1))
           key == CategoryKey(records[Len(records)])
       IN IF \E i \in 1..Len(before) : before[i] = key THEN before
          ELSE Append(before, key)

\* The index keys of a set in ascending numeric order.
RECURSIVE Ascending(_)
Ascending(keys) ==
  IF keys = {} THEN <<>>
  ELSE LET least == CHOOSE k \in keys :
                      \A other \in keys : DigitsValue(k) <= DigitsValue(other)
       IN <<least>> \o Ascending(keys \ {least})

\* The keys that are not index keys, in their order.
RECURSIVE OtherKeys(_)
OtherKeys(keys) ==
  IF keys = <<>> THEN <<>>
  ELSE IF IsIndexKey(Head(keys)) THEN OtherKeys(Tail(keys))
  ELSE <<Head(keys)>> \o OtherKeys(Tail(keys))

\* The keys of Object.entries(categoryMap), in its order.
EntryOrder(records) ==
  LET keys == InsertionOrder(records)
  IN Ascending({keys[i] : i \in {j \in 1..Len(keys) : IsIndexKey(keys[j])}})
       \o OtherKeys(keys)

\* Object.entries(categoryMap).sort((a, b) => b[1] - a[1])[0]?.[0] || 'None':
\* the sort is stable, so the first entry with the highest count comes first.
TopCategory(records) ==
  LET keys == EntryOrder(records)
  IN IF keys = <<>> THEN <<"N", "o", "n", "e">>
     ELSE keys[CHOOSE i \in 1..Len(keys) :
                 /\ \A j \in 1..Len(keys) :
                      CategoryCount(records, keys[j]) <= CategoryCount(records, keys[i])
                 /\ \A j \in 1..(i - 1) :
                      CategoryCount(records, keys[j]) < CategoryCount(records, keys[i])]

\* records.filter(r => r.date === day)
RECURSIVE OnDay(_, _)
OnDay(records, day) ==
  IF records = <<>> THEN <<>>
  ELSE IF Head(records).date = day THEN <<Head(records)>> \o OnDay(Tail(records), day)
  ELSE OnDay(Tail(records), day)

\* The seven days that end today.
dayBuckets == [i \in 1..7 |-> Date(Today[2] - (7 - i))]

\* computeStats(records): total, sum, topCategory and dailyTotals.
computeStats(records) ==
  [total |-> Len(records),
   sum |-> SumAmounts(records),
   topCategory |-> TopCategory(records),
   dailyTotals |-> [i \in 1..7 |-> SumAmounts(OnDay(records, dayBuckets[i]))]]

----------------------------------------------------------------------------
\* The values the environment supplies

ExtId == <<"ext", 1>>
OtherId == <<"ext", 2>>

\* A string of the form genId() produces.
RecId == <<"rec", 1, 1>>

\* A well-formed record of an import file, stamped by a session whose clock is
\* ahead of this one.
Full(id) ==
  Obj(id, Str(<<"t", "e", "a">>), Num(5), Str(<<"F", "o", "o", "d">>), Date(1),
      Time(MaxClock + 1), Time(MaxClock + 1))

\* A record-shaped object with missing and untrimmed properties.
Messy ==
  Obj(Undef, Str(<<" ", "t", " ">>), Str(<<"5">>), Str(<<" ">>), Undef, Undef, Undef)

\* A record of an import file whose amount is the JSON number 1e999, which
\* JSON.parse reads as Infinity.
Huge == [Full(ExtId) EXCEPT !.amount = Infinity]

\* A persisted record that lacks properties.
Partial == Obj(ExtId, Str(<<"t">>), Num(5), Undef, Undef, Undef, Undef)

\* The elements of the lists handed to replaceAll: objects, and in four
\* further lists a primitive, null and an infinite amount.
RawElems == {Messy, Full(RecId)}

InputLists ==
  UNION {[1..n -> RawElems] : n \in 0..MaxLen}
    \cup {<<Primitive>>, <<NullValue>>, <<Messy, NullValue>>, <<Huge>>}

\* A few of them.
ShortLists == {<<>>, <<Messy>>, <<Messy, NullValue>>, <<Huge>>}

\* The argument of replaceAll: an array, or anything else.
ListArgs(lists) == {[isList |-> TRUE, items |-> l] : l \in lists}
NonListArg == [isList |-> FALSE, items |-> <<>>]

\* The argument of addRecord.
AddArgs == {NullValue, Primitive, Full(RecId)}

\* The updates argument of updateRecord: every protected property together
\* with an untrimmed description.
Hostile ==
  [f \in Fields |->
     CASE f = "id" -> OtherId
       [] f \in {"createdAt", "updatedAt"} -> Time(0)
       [] f = "description" -> Str(<<" ", "t">>)
       [] OTHER -> Absent]
UpdateArgs == {Hostile}

\* What localStorage holds under sft:records when the page is first opened.
InitStored ==
  {NoItem,
   [kind |-> "garbage", items |-> <<>>],
   [kind |-> "nonlist", items |-> <<>>],
   [kind |-> "list", items |-> <<>>],
   [kind |-> "list", items |-> <<Partial>>]}

\* What fetch('seed.json') and res.json() give: a failure, or a parsed value.
SeedOutcomes ==
  {[ok |-> FALSE, isList |-> FALSE, items |-> <<>>],
   [ok |-> TRUE, isList |-> FALSE, items |-> <<>>],
   [ok |-> TRUE, isList |-> TRUE, items |-> <<>>],
   [ok |-> TRUE, isList |-> TRUE, items |-> <<Messy>>],
   [ok |-> TRUE, isList |-> TRUE, items |-> <<Full(ExtId), NullValue>>]}

----------------------------------------------------------------------------
\* The record of the last call

Call(op, id, obj, arg, retKind, ret, retIdx, write) ==
  [op |-> op, id |-> id, obj |-> obj, isList |-> arg.isList, items |-> arg.items,
   retKind |-> retKind, ret |-> ret, retIdx |-> retIdx, write |-> write]

NoArg == [isList |-> FALSE, items |-> <<>>]

Other(op) == Call(op, Undef, EmptyObj, NoArg, "none", EmptyObj, 0, "none")

\* The outcome of the localStorage write a call made.
Wrote(ok) == IF ok THEN "ok" ELSE "failed"

Failed(ok) == IF ok THEN failures ELSE failures + 1

\* The caller holds nothing.
NoHeld == [kind |-> "none", refs |-> <<>>]

\* The references the caller holds after the objects of the collection moved:
\* to[i] is the new position of the object at i, 0 if it left the collection.
Moved(to) ==
  [held EXCEPT !.refs = [k \in 1..Len(held.refs) |->
                           IF held.refs[k] = 0 THEN 0 ELSE to[held.refs[k]]]]

----------------------------------------------------------------------------
\* The page before app.js has bound anything

\* #recordForm in add mode with empty inputs.
NoForm ==
  [desc |-> <<>>, amount |-> <<>>, category |-> <<>>, date |-> <<>>,
   editId |-> Undef, status |-> "none"]

\* No delete modal in the document.
NoModal == [open |-> FALSE, id |-> Undef]

\* No session that ended with a persisted deleteRecord came before this page
\* load.
NoSession == [records |-> <<>>, deleted |-> FALSE]

\* No handler bound, an empty search box, no debounce timer, an empty record
\* list, no search status, the sort select on its first option and no modal.
NoView ==
  [bound |-> FALSE, query |-> <<>>, pending |-> FALSE, shown |-> <<>>,
   advisory |-> "none", sort |-> "none", modal |-> NoModal]

\* The step handled no UI event.
NoEvent == [name |-> "none", msg |-> "none", isList |-> FALSE, items |-> <<>>]

\* No pure export has been called and none is about to be.
NoPure == [fn |-> "none", arg |-> [for |-> "none"], ret |-> "none"]

----------------------------------------------------------------------------
\* Module evaluation (state.js:9-10) on the first page load.

Init ==
  /\ stored \in InitStored
  /\ _records = loadRecords(stored)
  /\ _counter = Len(_records)
  /\ clock = 1
  /\ pc = "loaded"
  /\ last = Other("load")
  /\ failures = 0
  /\ held = NoHeld
  /\ ended = NoSession
  /\ form = NoForm
  /\ view = NoView
  /\ event = NoEvent
  /\ pure = NoPure

\* An init() that fetches the seed whatever the collection holds.
alreadyHaveDataNever(rs) == FALSE

\* _records.length > 0
alreadyHaveData(rs) == Len(rs) > 0

\* init() up to its first await: returns at once when there are records.
InitStart ==
  /\ pc = "loaded"
  /\ pc' = IF alreadyHaveData(_records) THEN "ready" ELSE "fetching"
  /\ last' = Other("initStart")
  /\ UNCHANGED <<_records, _counter, stored, clock, ended, failures, held>>

\* init() from the await on: the seed is fetched and parsed, or that fails.
InitResume(seed, ok) ==
  /\ pc = "fetching"
  /\ pc' = "ready"
  /\ IF seed.ok /\ isArray(seed) /\ Len(seed.items) > 0
     THEN IF FirstNull(seed.items) = 0
          THEN /\ _counter + GenCalls(seed.items, Len(seed.items)) <= MaxCounter
               /\ _records' = MapNormalise(seed.items, _counter)
               /\ _counter' = _counter + GenCalls(seed.items, Len(seed.items))
               /\ stored' = saveRecords(stored, _records', ok)
               /\ failures' = Failed(ok)
               /\ last' = Call("init", Undef, EmptyObj, seed, "none", EmptyObj, 0, Wrote(ok))
          ELSE \* normalise throws inside the try: the catch empties the collection
               /\ ok
               /\ _counter + GenCalls(seed.items, FirstNull(seed.items) - 1) <= MaxCounter
               /\ _records' = <<>>
               /\ _counter' = _counter + GenCalls(seed.items, FirstNull(seed.items) - 1)
               /\ last' = Call("init", Undef, EmptyObj, seed, "none", EmptyObj, 0, "none")
               /\ UNCHANGED <<stored, failures>>
     ELSE /\ ok
          /\ _records' = IF seed.ok THEN _records ELSE <<>>
          /\ last' = Call("init", Undef, EmptyObj, seed,
                          IF seed.ok THEN "none" ELSE "failed", EmptyObj, 0, "none")
          /\ UNCHANGED <<_counter, stored, failures>>
  /\ UNCHANGED <<clock, ended, held>>

\* getRecords(): a new array of the same objects.
getRecords ==
  /\ pc = "ready"
  /\ last' = Call("getRecords", Undef, EmptyObj, NoArg, "list", EmptyObj, 0, "none")
  /\ UNCHANGED <<_records, _counter, stored, clock, ended, pc, failures, held>>

\* getRecord(id): the stored object itself, or null.
getRecord(id) ==
  /\ pc = "ready"
  /\ last' = IF findIndex(_records, id) = 0
             THEN Call("getRecord", id, EmptyObj, NoArg, "null", EmptyObj, 0, "none")
             ELSE Call("getRecord", id, EmptyObj, NoArg, "record",
                       _records[findIndex(_records, id)], findIndex(_records, id), "none")
  /\ UNCHANGED <<_records, _counter, stored, clock, ended, pc, failures, held>>

\* addRecord(data)
addRecord(data, ok) ==
  /\ pc = "ready"
  /\ IF data.kind # "object"
     THEN /\ ok
          /\ last' = Call("addRecord", Undef, data, NoArg, "null", EmptyObj, 0, "none")
          /\ UNCHANGED <<_records, _counter, stored, failures>>
     ELSE /\ Len(_records) < MaxLen
          /\ _counter < MaxCounter
          /\ LET record ==
                   normalise([data EXCEPT !.id = genId(_counter),
                                          !.createdAt = Now, !.updatedAt = Now],
                             _counter + 1)
             IN /\ _records' = Append(_records, record)
                /\ _counter' = _counter + 1
                /\ stored' = saveRecords(stored, _records', ok)
                /\ failures' = Failed(ok)
                /\ last' = Call("addRecord", Undef, data, NoArg, "record", record,
                                Len(_records'), Wrote(ok))
  /\ UNCHANGED <<clock, ended, pc, held>>

\* updateRecord(id, updates)
updateRecord(id, updates, ok) ==
  /\ pc = "ready"
  /\ LET idx == findIndex(_records, id) IN
       IF idx = 0
       THEN /\ ok
            /\ last' = Call("updateRecord", id, EmptyObj, NoArg, "null", EmptyObj, 0, "none")
            /\ UNCHANGED <<_records, _counter, stored, failures, held>>
       ELSE LET merged ==
                  [spread(_records[idx], updates) EXCEPT
                     !.id = id, !.createdAt = _records[idx].createdAt, !.updatedAt = Now]
                updated == normalise(merged, _counter)
                to == [i \in 1..Len(_records) |-> IF i = idx THEN 0 ELSE i]
            IN /\ ~Truthy(id) => _counter < MaxCounter
               /\ _records' = [_records EXCEPT ![idx] = updated]
               /\ _counter' = IF Truthy(id) THEN _counter ELSE _counter + 1
               /\ stored' = saveRecords(stored, _records', ok)
               /\ failures' = Failed(ok)
               /\ held' = Moved(to)
               /\ last' = Call("updateRecord", id, EmptyObj, NoArg, "record", updated,
                               idx, Wrote(ok))
  /\ UNCHANGED <<clock, ended, pc>>

\* deleteRecord(id)
deleteRecord(id, ok) ==
  /\ pc = "ready"
  /\ _records' = filterOut(_records, id)
  /\ LET to == [i \in 1..Len(_records) |->
                  IF _records[i].id = id THEN 0
                  ELSE Cardinality({j \in 1..i : _records[j].id # id})]
     IN held' = Moved(to)
  /\ IF lengthChanged(_records, _records')
     THEN /\ stored' = saveRecords(stored, _records', ok)
          /\ failures' = Failed(ok)
          /\ last' = Call("deleteRecord", id, EmptyObj, NoArg, "true", EmptyObj, 0, Wrote(ok))
     ELSE /\ ok
          /\ last' = Call("deleteRecord", id, EmptyObj, NoArg, "false", EmptyObj, 0, "none")
          /\ UNCHANGED <<stored, failures>>
  /\ UNCHANGED <<_counter, clock, ended, pc>>

\* replaceAll(recordsArray)
replaceAll(arg, ok) ==
  /\ pc = "ready"
  /\ IF ~isArray(arg)
     THEN /\ ok
          /\ last' = Call("replaceAll", Undef, EmptyObj, arg, "false", EmptyObj, 0, "none")
          /\ UNCHANGED <<_records, _counter, stored, failures, held>>
     ELSE IF FirstNull(arg.items) # 0
     THEN \* normalise(null) throws TypeError out of map and out of replaceAll
          /\ ok
          /\ _counter + GenCalls(arg.items, FirstNull(arg.items) - 1) <= MaxCounter
          /\ _counter' = _counter + GenCalls(arg.items, FirstNull(arg.items) - 1)
          /\ last' = Call("replaceAll", Undef, EmptyObj, arg, "raise", EmptyObj, 0, "none")
          /\ UNCHANGED <<_records, stored, failures, held>>
     ELSE LET to == [i \in 1..Len(_records) |-> 0] IN
          /\ _counter + GenCalls(arg.items, Len(arg.items)) <= MaxCounter
          /\ _records' = MapNormalise(arg.items, _counter)
          /\ _counter' = _counter + GenCalls(arg.items, Len(arg.items))
          /\ stored' = saveRecords(stored, _records', ok)
          /\ failures' = Failed(ok)
          /\ held' = Moved(to)
          /\ last' = Call("replaceAll", Undef, EmptyObj, arg, "true", EmptyObj, 0, Wrote(ok))
  /\ UNCHANGED <<clock, ended, pc>>

\* The caller keeps the value the last call returned: the array of getRecords,
\* or the record of getRecord, addRecord or updateRecord.
CallerKeeps ==
  /\ pc = "ready"
  /\ last.retKind \in {"list", "record"}
  /\ held' = IF last.retKind = "list"
             THEN [kind |-> "list", refs |-> [i \in 1..Len(_records) |-> i]]
             ELSE [kind |-> "record", refs |-> <<last.retIdx>>]
  /\ last' = Other("callerKeeps")
  /\ UNCHANGED <<_records, _counter, stored, clock, ended, pc, failures>>

\* The caller assigns a property of a record object it holds.
CallerWritesRecord(k) ==
  /\ pc = "ready"
  /\ k \in 1..Len(held.refs)
  /\ held.refs[k] # 0
  /\ _records' = [_records EXCEPT ![held.refs[k]].description = Str(<<"x">>)]
  /\ last' = Other("callerWritesRecord")
  /\ UNCHANGED <<_counter, stored, clock, ended, pc, failures, held>>

\* The caller removes the first element of the array it holds.
CallerWritesList ==
  /\ pc = "ready"
  /\ held.kind = "list"
  /\ held.refs # <<>>
  /\ held' = [held EXCEPT !.refs = Tail(held.refs)]
  /\ last' = Other("callerWritesList")
  /\ UNCHANGED <<_records, _counter, stored, clock, ended, pc, failures>>

\* Time passes.
Tick ==
  /\ clock < MaxClock
  /\ clock' = clock + 1
  /\ last' = Other("tick")
  /\ event' = NoEvent
  /\ UNCHANGED <<_records, _counter, stored, pc, failures, held, ended, dom>>

\* The call was a deleteRecord that removed a record and wrote the collection.
persistedDelete(call) ==
  call.op = "deleteRecord" /\ call.retKind = "true" /\ call.write = "ok"

\* The page is reloaded: the module is evaluated again (state.js:9-10) and the
\* document starts anew.
Reload ==
  /\ pc = "ready"
  /\ clock < MaxClock
  /\ clock' = clock + 1
  /\ _records' = loadRecords(stored)
  /\ _counter' = Len(_records')
  /\ pc' = "loaded"
  /\ held' = NoHeld
  /\ ended' = IF persistedDelete(last)
              THEN [records |-> _records, deleted |-> TRUE]
              ELSE NoSession
  /\ last' = Other("load")
  /\ form' = NoForm
  /\ view' = NoView
  /\ event' = NoEvent
  /\ UNCHANGED <<stored, failures, pure>>

LookupIds == Ids(_records) \cup {OtherId}

----------------------------------------------------------------------------
\* Calls of the pure exports

\* The texts highlight is given and the search box values its matcher is
\* compiled from.
Texts ==
  {<<>>, <<"t", "e", "a">>, <<"e", "e">>, <<"e", "F", "e">>, <<"F", "f">>,
   <<"e", "e", "e">>}

HighlightInputs ==
  {[for |-> "highlight", text |-> t, query |-> q] :
     t \in Texts, q \in {<<>>, <<" ">>, <<"e">>, <<"F">>, <<"(">>, <<"e", "e">>}}

\* The values of the four inputs validateForm is given.
Descriptions ==
  {<<>>, <<" ", "a">>, <<"a">>, <<"a", " ", "b">>, <<"a", " ", "A">>,
   <<"t", "e", " ", "T", "E", " ">>}
Amounts ==
  {<<>>, <<"0">>, <<"0", ".", "0">>, <<"5">>, <<"0", "5">>, <<"0", ".", "5">>,
   <<"5", ".", "1", "2", "3">>, <<"-", "5">>}
Categories == {<<>>, <<"F", "o", "o", "d">>, <<"F", "-">>, <<"a", "1">>}
Dates ==
  {<<>>,
   <<"2", "0", "2", "4", "-", "0", "1", "-", "0", "1">>,
   <<"2", "0", "2", "4", "-", "1", "3", "-", "0", "1">>,
   <<"2", "0", "2", "4", "-", "0", "1", "-", "3", "2">>}

FormInputs ==
  {[for |-> "validateForm", desc |-> d, amount |-> a, category |-> c, date |-> t] :
     d \in Descriptions, a \in Amounts, c \in Categories, t \in Dates}

\* The snapshots computeStats is given: records of today with a category of
\* letters, a category of digits or none.
SnapshotElems ==
  {[Full(ExtId) EXCEPT !.category = c] :
     c \in {Str(<<"F", "o", "o", "d">>), Str(<<"7">>), Undef}}

Snapshots ==
  {[for |-> "computeStats", records |-> rs] :
     rs \in UNION {[1..n -> SnapshotElems] : n \in 0..MaxLen}}

\* A page that was just loaded, and the arguments of the call to come.
InitPure ==
  /\ stored = NoItem
  /\ _records = loadRecords(stored)
  /\ _counter = Len(_records)
  /\ clock = 1
  /\ pc = "loaded"
  /\ last = Other("load")
  /\ failures = 0
  /\ held = NoHeld
  /\ ended = NoSession
  /\ form = NoForm
  /\ view = NoView
  /\ event = NoEvent
  /\ pure \in {[NoPure EXCEPT !.arg = a] :
                 a \in HighlightInputs \cup FormInputs \cup Snapshots}

\* The call returns ret.
Returns(fn, ret) ==
  /\ pure.fn = "none"
  /\ pure.arg.for = fn
  /\ pure' = [pure EXCEPT !.fn = fn, !.ret = ret]
  /\ UNCHANGED <<_records, _counter, stored, clock, ended, pc, last, failures, held,
                 form, view, event>>

\* highlight(text, compileRegex(query, 'i')), as renderRecords is handed the
\* matcher by the search handler.
CallHighlight ==
  /\ pure.arg.for = "highlight"
  /\ Returns("highlight", highlight(pure.arg.text, compileRegex(pure.arg.query, {"i"})))

CallValidateForm ==
  /\ pure.arg.for = "validateForm"
  /\ Returns("validateForm",
             validateForm(pure.arg.desc, pure.arg.amount, pure.arg.category,
                          pure.arg.date))

CallComputeStats ==
  /\ pure.arg.for = "computeStats"
  /\ Returns("computeStats", computeStats(pure.arg.records))

----------------------------------------------------------------------------
\* scripts/app.js

\* A binding that does not wait for init().
awaitedNever(p) == TRUE

\* `await init()`: the handler goes on when init has completed.
awaited(p) == p = "ready"

\* A UI event: its handler, the message it shows and the array it was given.
Event(name, msg, arg) ==
  [name |-> name, msg |-> msg, isList |-> arg.isList, items |-> arg.items]

\* The DOMContentLoaded handler after `await init()`: the handlers are bound
\* and the records are rendered.
Bind ==
  /\ awaited(pc)
  /\ ~view.bound
  /\ view' = [view EXCEPT !.bound = TRUE, !.shown = _records]
  /\ event' = Event("bind", "none", NoArg)
  /\ last' = Other("getRecords")
  /\ UNCHANGED <<_records, _counter, stored, clock, ended, pc, failures, held, form, pure>>

----------------------------------------------------------------------------
\* scripts/ui.js: export and import

\* The text of a file: it parses as JSON or not, and parses to an array or not.
File(parses, isList, items) == [parses |-> parses, isList |-> isList, items |-> items]

\* _bindExport: the file holds JSON.stringify(getRecords(), null, 2).
Exported == File(TRUE, TRUE, JsonList(_records))

\* A check that lets every element through.
missingFieldsNever(r) == FALSE

\* r.amount === undefined && r.description === undefined
missingFields(r) == r.amount = Undef /\ r.description = Undef

\* typeof r !== 'object' || r === null
notObject(r) == r.kind # "object"

\* The error reader.onload throws before it calls replaceAll, "none" if it
\* throws none.
importError(file) ==
  IF ~file.parses THEN "syntax"
  ELSE IF ~isArray(file) THEN "root"
  ELSE IF \E i \in 1..Len(file.items) :
            notObject(file.items[i]) \/ missingFields(file.items[i])
  THEN LET i == CHOOSE i \in 1..Len(file.items) :
                  /\ notObject(file.items[i]) \/ missingFields(file.items[i])
                  /\ \A j \in 1..(i - 1) :
                       ~(notObject(file.items[j]) \/ missingFields(file.items[j]))
       IN IF notObject(file.items[i]) THEN "item" ELSE "fields"
  ELSE "none"

\* _bindImport: reader.onload on the text of the chosen file.
Import(file, ok) ==
  /\ view.bound
  /\ IF importError(file) # "none"
     THEN /\ ok
          /\ event' = Event("import", "error",
                            [isList |-> file.parses /\ file.isList, items |-> file.items])
          /\ last' = Other("import")
          /\ UNCHANGED <<_records, _counter, stored, failures, held, view>>
     ELSE /\ replaceAll([isList |-> TRUE, items |-> file.items], ok)
          /\ event' = Event("import",
                            IF last'.retKind = "true" THEN "success" ELSE "error",
                            [isList |-> TRUE, items |-> file.items])
          /\ view' = IF last'.retKind = "true"
                     THEN [view EXCEPT !.shown = _records']
                     ELSE view
  /\ UNCHANGED <<clock, ended, pc, form, pure>>

----------------------------------------------------------------------------
\* scripts/ui.js: the record form

\* String(n) for a natural number.
RECURSIVE NatChars(_)
NatChars(n) ==
  IF n < 10 THEN <<DigitChar(n)>> ELSE NatChars(n \div 10) \o <<DigitChar(n % 10)>>

\* The value an input shows when it is assigned v: rec.amount ?? '' for the
\* amount, rec.x || '' for the others.
InputChars(v) ==
  CASE v[1] = "number" -> NatChars(v[2])
    [] v[1] = "decimal" ->
         NatChars(v[2]) \o <<".", DigitChar(v[3] \div 10)>>
           \o (IF v[3] % 10 = 0 THEN <<>> ELSE <<DigitChar(v[3] % 10)>>)
    [] v[1] = "Infinity" -> <<"I", "n", "f", "i", "n", "i", "t", "y">>
    [] OTHER -> Chars(v)

\* The value of the date input as the records of the model hold dates.
DateValue(s) ==
  IF \E d \in 1..9 : Chars(Date(d)) = s
  THEN Date(CHOOSE d \in 1..9 : Chars(Date(d)) = s)
  ELSE Str(s)

\* What the user leaves in the four inputs: two forms that pass, one of them
\* with blanks around description and category, and forms that fail a rule.
Entry(desc, amount, category, date) ==
  [desc |-> desc, amount |-> amount, category |-> category, date |-> date]

FormEntries ==
  {Entry(<<"t", "e", "a">>, <<"5">>, <<"F", "o", "o", "d">>, Chars(Date(1))),
   Entry(<<" ", "t", " ">>, <<"0", ".", "5">>, <<"F", "o", "o", "d", " ">>, Chars(Date(1))),
   Entry(<<>>, <<"5">>, <<"F", "o", "o", "d">>, Chars(Date(1))),
   Entry(<<"t", "e", "a">>, <<"0">>, <<"F", "o", "o", "d">>, Chars(Date(1))),
   Entry(<<"t", " ", "T">>, <<"5">>, <<"F", "o", "o", "d">>, <<>>)}

\* The user edits the inputs.
FormInput(entry) ==
  /\ view.bound
  /\ form' = [form EXCEPT !.desc = entry.desc, !.amount = entry.amount,
                          !.category = entry.category, !.date = entry.date]
  /\ form' # form
  /\ event' = Event("formInput", "none", NoArg)
  /\ last' = Other("formInput")
  /\ UNCHANGED <<_records, _counter, stored, clock, ended, pc, failures, held, view, pure>>

\* _populateForm(rec)
populateForm(rec) ==
  [desc |-> Chars(Or(rec.description, Str(<<>>))),
   amount |-> IF rec.amount \in {Undef, Null} THEN <<>> ELSE InputChars(rec.amount),
   category |-> Chars(Or(rec.category, Str(<<>>))),
   date |-> Chars(Or(rec.date, Str(<<>>))),
   editId |-> rec.id,
   status |-> form.status]

\* A click on the Edit button of the k-th card of the rendered list.
EditClick(k) ==
  /\ view.bound
  /\ k \in 1..Len(view.shown)
  /\ getRecord(view.shown[k].id)
  /\ form' = IF last'.retKind = "record" THEN populateForm(last'.ret) ELSE form
  /\ event' = Event("edit", "none", NoArg)
  /\ UNCHANGED <<view, pure>>

\* A check that lets every form through.
rejectedNever(error) == FALSE

\* if (error)
rejected(error) == error # "null"

\* The properties the submit handler hands to addRecord and updateRecord.
Submitted ==
  [f \in Fields |->
     CASE f = "description" -> Str(Trim(form.desc))
       [] f = "amount" -> parseFloat(form.amount)
       [] f = "category" -> Str(Trim(form.category))
       [] f = "date" -> DateValue(form.date)
       [] OTHER -> Absent]

\* The submit handler of the form; _resetForm ends the success path.
Submit(ok) ==
  /\ view.bound
  /\ LET error == validateForm(Trim(form.desc), form.amount, Trim(form.category),
                               form.date)
     IN IF rejected(error)
        THEN /\ ok
             /\ form' = [form EXCEPT !.status = error]
             /\ event' = Event("submit", "error", NoArg)
             /\ last' = Other("submit")
             /\ UNCHANGED <<_records, _counter, stored, clock, ended, pc, failures, held, view>>
        ELSE /\ IF Truthy(form.editId)
                THEN /\ updateRecord(form.editId, Submitted, ok)
                     /\ event' = Event("submit", "updated", NoArg)
                ELSE /\ addRecord([EmptyObj EXCEPT
                                     !.description = Submitted.description,
                                     !.amount = Submitted.amount,
                                     !.category = Submitted.category,
                                     !.date = Submitted.date], ok)
                     /\ event' = Event("submit", "added", NoArg)
             /\ view' = [view EXCEPT !.shown = _records']
             /\ form' = NoForm
  /\ UNCHANGED pure

\* The Cancel button: _resetForm.
Cancel ==
  /\ view.bound
  /\ form # NoForm
  /\ form' = NoForm
  /\ event' = Event("cancel", "none", NoArg)
  /\ last' = Other("cancel")
  /\ UNCHANGED <<_records, _counter, stored, clock, ended, pc, failures, held, view, pure>>

----------------------------------------------------------------------------
\* scripts/ui.js: search

\* What the user leaves in the search box: nothing, a blank, patterns that
\* match some records, and a pattern that does not compile.
Queries == {<<>>, <<" ">>, <<"e">>, <<"F">>, <<"(">>}

\* An input event on the search box: the debounce timer is set anew.
SearchInput(q) ==
  /\ view.bound
  /\ view.query # q
  /\ view' = [view EXCEPT !.query = q, !.pending = TRUE]
  /\ event' = Event("input", "none", NoArg)
  /\ last' = Other("input")
  /\ UNCHANGED <<_records, _counter, stored, clock, ended, pc, failures, held, form, pure>>

\* input.value && !re
invalidQuery(value, re) == value # <<>> /\ re.null

\* The debounce timer fires: the search handler runs.
SearchFire ==
  /\ view.bound
  /\ view.pending
  /\ LET re == compileRegex(view.query, {"i"})
         results == filterRecords(_records, re)
     IN IF invalidQuery(view.query, re)
        THEN view' = [view EXCEPT !.pending = FALSE, !.advisory = "invalid"]
        ELSE view' = [view EXCEPT !.pending = FALSE,
                                  !.advisory = IF re.null THEN "none" ELSE "count",
                                  !.shown = results]
  /\ event' = Event("search", "none", NoArg)
  /\ last' = Other("getRecords")
  /\ UNCHANGED <<_records, _counter, stored, clock, ended, pc, failures, held, form, pure>>

----------------------------------------------------------------------------
\* scripts/ui.js: sorting

\* The values of #sortSelect the model draws: one the switch has no case for,
\* and the two orders by amount.
SortValues == {"none", "amount", "amount-desc"}

\* a - b < 0 for two results of Number()
Below(a, b) ==
  /\ a \notin {NaN, Infinity}
  /\ b # NaN
  /\ b = Infinity \/ Hundredths(a) < Hundredths(b)

\* The comparator of the selected order gives a negative number for (a, b).
Negative(select, a, b) ==
  CASE select = "amount" -> Below(ToNumber(a.amount), ToNumber(b.amount))
    [] select = "amount-desc" -> Below(ToNumber(b.amount), ToNumber(a.amount))
    [] OTHER -> FALSE

\* x put into a sorted list, behind the elements it does not precede.
RECURSIVE Insert(_, _, _)
Insert(select, sorted, x) ==
  IF sorted = <<>> THEN <<x>>
  ELSE IF Negative(select, x, sorted[Len(sorted)])
       THEN Insert(select, SubSeq(sorted, 1, Len(sorted) - 1), x)
              \o <<sorted[Len(sorted)]>>
       ELSE sorted \o <<x>>

\* Array.prototype.sort with the comparator of the selected order (stable).
RECURSIVE sort(_, _)
sort(select, records) ==
  IF records = <<>> THEN <<>>
  ELSE Insert(select, sort(select, SubSeq(records, 1, Len(records) - 1)),
              records[Len(records)])

\* The change handler of #sortSelect: _applySort.
applySort(select) ==
  /\ view.bound
  /\ view.sort # select
  /\ LET re == compileRegex(view.query, {"i"})
     IN view' = [view EXCEPT !.sort = select,
                             !.shown = sort(select, filterRecords(_records, re))]
  /\ event' = Event("sort", "none", NoArg)
  /\ last' = Other("getRecords")
  /\ UNCHANGED <<_records, _counter, stored, clock, ended, pc, failures, held, form, pure>>

----------------------------------------------------------------------------
\* scripts/ui.js: the delete modal

\* A click on the Delete button of the k-th card of the rendered list:
\* _showDeleteModal puts the modal for that record in place of any other.
DeleteClick(k) ==
  /\ view.bound
  /\ k \in 1..Len(view.shown)
  /\ view' = [view EXCEPT !.modal = [open |-> TRUE, id |-> view.shown[k].id]]
  /\ view' # view
  /\ event' = Event("deleteClick", "none", NoArg)
  /\ last' = Other("deleteClick")
  /\ UNCHANGED <<_records, _counter, stored, clock, ended, pc, failures, held, form, pure>>

\* "Keep it", Escape or a click on the overlay: closeModal.
DeleteCancel ==
  /\ view.modal.open
  /\ view' = [view EXCEPT !.modal = NoModal]
  /\ event' = Event("deleteCancel", "none", NoArg)
  /\ last' = Other("deleteCancel")
  /\ UNCHANGED <<_records, _counter, stored, clock, ended, pc, failures, held, form, pure>>

\* "Yes, delete": closeModal, deleteRecord(id) and
\* renderRecords(getRecords(), re).
DeleteConfirm(ok) ==
  /\ view.modal.open
  /\ deleteRecord(view.modal.id, ok)
  /\ view' = [view EXCEPT !.modal = NoModal, !.shown = _records']
  /\ event' = Event("deleteConfirm", "deleted", NoArg)
  /\ UNCHANGED <<form, pure>>

\* A record-shaped element that supplies neither description nor amount.
Blank == [Full(ExtId) EXCEPT !.description = Undef, !.amount = Undef]

\* The files the user chooses: one that is not JSON, one that is not an array,
\* arrays of valid elements and arrays with one element that is not.
ImportFiles ==
  {File(FALSE, FALSE, <<>>), File(TRUE, FALSE, <<>>), File(TRUE, TRUE, <<>>),
   File(TRUE, TRUE, <<Messy>>),
   File(TRUE, TRUE, <<Full(RecId)>>), File(TRUE, TRUE, <<Full(RecId), Blank>>),
   File(TRUE, TRUE, <<Primitive, Full(RecId)>>),
   File(TRUE, TRUE, <<Full(RecId), NullValue>>)}

\* The outcomes of a localStorage write: setItem may throw when mayFail, as
\* long as fewer than MaxFailures writes have failed.
WriteOutcome(mayFail, ok) == ok \/ (mayFail /\ failures < MaxFailures)

\* A step that is a direct call of the store leaves the page alone.
Direct == event' = NoEvent /\ UNCHANGED dom

\* The mutating calls of the application, with the lists handed to replaceAll
\* drawn from lists.
StoreNext(lists, mayFail) ==
  \/ InitStart /\ Direct
  \/ \E seed \in SeedOutcomes, ok \in BOOLEAN :
       WriteOutcome(mayFail, ok) /\ InitResume(seed, ok) /\ Direct
  \/ \E data \in AddArgs, ok \in BOOLEAN :
       WriteOutcome(mayFail, ok) /\ addRecord(data, ok) /\ Direct
  \/ \E id \in LookupIds, updates \in UpdateArgs, ok \in BOOLEAN :
       WriteOutcome(mayFail, ok) /\ updateRecord(id, updates, ok) /\ Direct
  \/ \E id \in LookupIds, ok \in BOOLEAN :
       WriteOutcome(mayFail, ok) /\ deleteRecord(id, ok) /\ Direct
  \/ \E arg \in ListArgs(lists) \cup {NonListArg}, ok \in BOOLEAN :
       WriteOutcome(mayFail, ok) /\ replaceAll(arg, ok) /\ Direct

TimeNext ==
  \/ Tick
  \/ Reload

ReadNext ==
  \/ getRecords /\ Direct
  \/ \E id \in LookupIds : getRecord(id) /\ Direct

CallerNext ==
  \/ CallerKeeps /\ Direct
  \/ \E k \in 1..MaxLen : CallerWritesRecord(k) /\ Direct
  \/ CallerWritesList /\ Direct

\* The import of a chosen file, or of the file the export button just wrote.
ImportNext ==
  \E file \in ImportFiles \cup {Exported} : Import(file, TRUE)

\* init() as app.js calls it.
StartNext ==
  \/ InitStart /\ Direct
  \/ \E seed \in SeedOutcomes : InitResume(seed, TRUE) /\ Direct

\* The files the user imports while searching.
SearchFiles ==
  {File(TRUE, TRUE, <<>>), File(TRUE, TRUE, <<Messy, Full(RecId)>>),
   File(TRUE, TRUE, <<Huge>>)}

FormNext ==
  \/ \E entry \in FormEntries : FormInput(entry)
  \/ \E k \in 1..MaxLen : EditClick(k)
  \/ Submit(TRUE)
  \/ Cancel

SearchNext ==
  \/ \E q \in Queries : SearchInput(q)
  \/ SearchFire
  \/ \E file \in SearchFiles : Import(file, TRUE)

\* The patterns the user searches the list for.
ListQueries == {<<>>, <<"F">>}

\* What the user leaves in the form while working on the list: a form that
\* passes.
ListEntries ==
  {Entry(<<" ", "t", " ">>, <<"0", ".", "5">>, <<"F", "o", "o", "d", " ">>, Chars(Date(1)))}

ListNext ==
  \/ \E entry \in ListEntries : FormInput(entry)
  \/ \E k \in 1..MaxLen : EditClick(k)
  \/ Submit(TRUE)
  \/ \E q \in ListQueries : SearchInput(q)
  \/ SearchFire
  \/ \E select \in SortValues : applySort(select)
  \/ \E k \in 1..MaxLen : DeleteClick(k)
  \/ DeleteCancel
  \/ DeleteConfirm(TRUE)

\* The store over time and page reloads, every localStorage write succeeding.
Next == StoreNext(InputLists, FALSE) \/ TimeNext

Spec == Init /\ [][Next]_vars

\* The store within one page load, with localStorage writes that may fail.
NextWrites == StoreNext(ShortLists, TRUE)

SpecWrites == Init /\ [][NextWrites]_vars

\* The store within one page load and a caller that keeps and modifies the
\* values it is handed.
NextCaller == StoreNext(ShortLists, FALSE) \/ ReadNext \/ CallerNext

SpecCaller == Init /\ [][NextCaller]_vars

\* The page: init, the bindings, the record form, the export button and the
\* import of files.
NextImport == StartNext \/ Bind \/ FormNext \/ ImportNext

SpecImport == Init /\ [][NextImport]_vars

\* The page: init, the bindings, the search box and imports.
NextSearch == StartNext \/ Bind \/ SearchNext

SpecSearch == Init /\ [][NextSearch]_vars

\* The page over reloads: init, the bindings and the record form.
NextForm == StartNext \/ Bind \/ FormNext \/ Reload

SpecForm == Init /\ [][NextForm]_vars

\* The page: init, the bindings, the search box, the sort select, the record
\* form and the delete modal.
NextList == StartNext \/ Bind \/ ListNext

SpecList == Init /\ [][NextList]_vars

\* One call of a pure export on arguments of the model.
NextPure == CallHighlight \/ CallValidateForm \/ CallComputeStats

SpecPure == InitPure /\ [][NextPure]_vars

----------------------------------------------------------------------------
\* Properties

Mutators == {"addRecord", "updateRecord", "deleteRecord", "replaceAll"}

\* Every one of the seven properties is present and defined.
FullyPopulated(r) == \A f \in Fields : r[f] # Undef

\* Timestamp a is later than or equal to timestamp b (b any other value
\* compares as earlier).
LaterOrEqual(a, b) == b[1] = "time" => (a[1] = "time" /\ a[2] >= b[2])

\* C1: in every reachable state no two records of the in-memory collection
\* have the same id.
C1_UniqueIds ==
  \A i, j \in 1..Len(_records) : i # j => _records[i].id # _records[j].id

\* C2: the record addRecord returns for a structured argument has an id that
\* no record of the collection had before the call, and the id is the generated
\* one, not one the argument supplied.
C2_AddFreshId ==
  [][(last'.op = "addRecord" /\ last'.retKind = "record")
       => /\ last'.ret.id \notin Ids(_records)
          /\ last'.ret.id = genId(_counter)]_vars

\* C3: updateRecord on a stored id, whatever updates carries, keeps the id and
\* the createdAt of the record, leaves its updatedAt later than or equal to what
\* it was, and leaves every other record unchanged.
C3_UpdatePreserves ==
  [][(last'.op = "updateRecord" /\ last'.retKind = "record")
       => /\ Len(_records') = Len(_records)
          /\ _records'[last'.retIdx].id = _records[last'.retIdx].id
          /\ _records'[last'.retIdx].createdAt = _records[last'.retIdx].createdAt
          /\ LaterOrEqual(_records'[last'.retIdx].updatedAt,
                          _records[last'.retIdx].updatedAt)
          /\ \A j \in 1..Len(_records) :
               j # last'.retIdx => _records'[j] = _records[j]]_vars

\* C4: deleteRecord on a present id returns true and getRecord of that id then
\* finds nothing; on an absent id it returns false, leaves the collection
\* unchanged and writes nothing to localStorage.
C4_Delete ==
  [][last'.op = "deleteRecord"
       => IF last'.id \in Ids(_records)
          THEN /\ last'.retKind = "true"
               /\ findIndex(_records', last'.id) = 0
          ELSE /\ last'.retKind = "false"
               /\ _records' = _records
               /\ stored' = stored
               /\ last'.write = "none"]_vars

\* deleteRecord of an absent id on a non-empty collection whose persisted copy
\* is stale.
C4_Witness ==
  /\ last.op = "deleteRecord"
  /\ last.retKind = "false"
  /\ Len(_records) > 0
  /\ loadRecords(stored) # _records

\* C5: replaceAll on any list never raises, returns success and leaves one fully
\* populated record per input element, in input order.
C5_ReplaceAllLenient ==
  (last.op = "replaceAll" /\ last.isList)
    => /\ last.retKind = "true"
       /\ Len(_records) = Len(last.items)
       /\ \A i \in 1..Len(_records) :
            /\ FullyPopulated(_records[i])
            /\ Truthy(last.items[i].id) => _records[i].id = last.items[i].id

\* C6: replaceAll on an argument that is not a list returns failure and leaves
\* the in-memory and the persisted collection as they were.
C6_ReplaceAllRejects ==
  [][(last'.op = "replaceAll" /\ ~last'.isList)
       => /\ last'.retKind = "false"
          /\ _records' = _records
          /\ stored' = stored]_vars

\* replaceAll of a non-list on a non-empty collection.
C6_Witness ==
  /\ last.op = "replaceAll"
  /\ ~last.isList
  /\ last.retKind = "false"
  /\ Len(_records) > 0

\* C7: in every reachable state, the state after startup included, every record
\* of the in-memory collection has all seven properties defined.
C7_FullyPopulated ==
  \A i \in 1..Len(_records) : FullyPopulated(_records[i])

\* C8: whatever the caller does to a value the store handed it, the collection
\* the store holds stays as it was.
C8_DefensiveCopies ==
  [][last'.op \in {"callerWritesRecord", "callerWritesList"}
       => _records' = _records]_vars

\* C9: when addRecord, updateRecord, deleteRecord or replaceAll changes the
\* collection and its localStorage write does not fail, the persisted list read
\* back equals the in-memory collection.
C9_Persisted ==
  [][(last'.op \in Mutators /\ _records' # _records /\ last'.write # "failed")
       => loadRecords(stored') = _records']_vars

\* C10: when the localStorage write of a call fails, the call does not raise,
\* returns what it returns otherwise, the collection holds the mutation and the
\* persisted list is what it was.
C10_WriteFailure ==
  [][last'.write = "failed"
       => /\ stored' = stored
          /\ CASE last'.op = "addRecord" ->
                    /\ last'.retKind = "record"
                    /\ _records' = Append(_records, last'.ret)
               [] last'.op = "updateRecord" ->
                    /\ last'.retKind = "record"
                    /\ _records'[last'.retIdx] = last'.ret
                    /\ last'.ret.updatedAt = Now
               [] last'.op = "deleteRecord" ->
                    /\ last'.retKind = "true"
                    /\ _records' = filterOut(_records, last'.id)
                    /\ Len(_records') < Len(_records)
               [] last'.op = "replaceAll" ->
                    /\ last'.retKind = "true"
                    /\ Len(_records') = Len(last'.items)
               [] OTHER -> last'.op = "init"]_vars

\* The write of a call failed and left the persisted list behind the collection.
C10_Witness ==
  /\ last.write = "failed"
  /\ last.op \in Mutators
  /\ stored.kind = "list"
  /\ Len(stored.items) > 0
  /\ loadRecords(stored) # _records

\* C11: importing the file the export button writes for the current collection,
\* a collection of fully populated records as add, update, delete and
\* replaceAll leave them, leaves the collection as it was: the same records, in
\* the same order, with every id and property value.
C11_RoundTrip ==
  [][(/\ event'.name = "import"
      /\ event'.isList
      /\ event'.items = JsonList(_records)
      /\ \A i \in 1..Len(_records) : FullyPopulated(_records[i]))
       => _records' = _records]_vars

\* The file of an import is rejected by the rule of the import format.
Rejected(e) ==
  \/ ~e.isList
  \/ \E i \in 1..Len(e.items) :
        \/ e.items[i].kind # "object"
        \/ (e.items[i].description = Undef /\ e.items[i].amount = Undef)

\* C12: an import of a file that is not an array, or that has an element that
\* is not an object or supplies neither description nor amount, reports an
\* error and leaves the in-memory and the persisted collection as they were.
C12_ImportRejects ==
  [][(event'.name = "import" /\ Rejected(event'))
       => /\ event'.msg = "error"
          /\ _records' = _records
          /\ stored' = stored]_vars

\* An import with one valid and one invalid element was rejected on a
\* non-empty collection.
C12_Witness ==
  /\ event.name = "import"
  /\ event.msg = "error"
  /\ Len(event.items) = 2
  /\ \E i \in 1..2 : event.items[i] = Full(RecId)
  /\ Len(_records) > 0

\* C13: when the search handler runs with a pattern that does not compile, the
\* invalid-pattern advisory is shown and the record list shown afterwards is
\* the whole collection, whatever was shown before.
C13_InvalidPattern ==
  [][(event'.name = "search" /\ Trim(view.query) # <<>> /\ ~ValidPattern(Trim(view.query)))
       => /\ view'.advisory = "invalid"
          /\ view'.shown = _records']_vars

\* C14: when the search handler runs with an empty or blank query, the whole
\* collection is shown in its order and no invalid-pattern advisory is flagged.
C14_EmptyQuery ==
  [][(event'.name = "search" /\ Trim(view.query) = <<>>)
       => /\ view'.advisory # "invalid"
          /\ view'.shown = _records']_vars

\* C15: highlight, on a non-empty text and a matcher the search UI compiled,
\* wraps every non-overlapping match of the text in a marker; without a matcher
\* or on the empty text it returns the text.
C15_HighlightAll ==
  pure.fn = "highlight"
    => LET re == compileRegex(pure.arg.query, {"i"})
       IN pure.ret = IF re.null \/ pure.arg.text = <<>>
                     THEN pure.arg.text
                     ELSE ReplaceFrom(pure.arg.text, re, 1, TRUE)

\* The six rules of the form, in their order, and the errors of their failure.
RulePasses(i, a) ==
  CASE i = 1 -> descriptionPattern(a.desc)
    [] i = 2 -> amountPattern(a.amount)
    [] i = 3 -> amountPattern(a.amount) => parseFloat(a.amount) # Num(0)
    [] i = 4 -> categoryPattern(a.category)
    [] i = 5 -> datePattern(a.date)
    [] i = 6 -> ~duplicateWordPattern(a.desc)

RuleErrors == <<"description", "amount", "zero", "category", "date", "duplicate">>

\* C16: validateForm returns the error of the first rule that fails, in the
\* order description, amount format, amount above zero, category, date,
\* repeated word, and null exactly when the six rules pass.
C16_FirstFailingRule ==
  pure.fn = "validateForm"
    => LET failing == {i \in 1..6 : ~RulePasses(i, pure.arg)}
       IN pure.ret = IF failing = {} THEN "null"
                     ELSE RuleErrors[CHOOSE i \in failing : \A j \in failing : i <= j]

\* validateForm reported the amount of a form whose category, date and
\* description words fail as well.
C16_Witness ==
  /\ pure.fn = "validateForm"
  /\ pure.ret = "amount"
  /\ ~categoryPattern(pure.arg.category)
  /\ ~datePattern(pure.arg.date)
  /\ duplicateWordPattern(pure.arg.desc)

\* The position of the first record of the snapshot that has category key.
FirstOf(records, key) ==
  CHOOSE i \in 1..Len(records) :
    /\ CategoryKey(records[i]) = key
    /\ \A j \in 1..(i - 1) : CategoryKey(records[j]) # key

\* C20: the top category computeStats returns has the highest record count
\* and, among the categories that have it, the earliest first record; for the
\* empty snapshot it returns total 0, sum 0, top category None and seven daily
\* totals of 0.
C20_TopCategory ==
  pure.fn = "computeStats"
    => LET records == pure.arg.records
           top == pure.ret.topCategory
       IN IF records = <<>>
          THEN /\ pure.ret.total = 0
               /\ pure.ret.sum = Num(0)
               /\ top = <<"N", "o", "n", "e">>
               /\ \A i \in 1..7 : pure.ret.dailyTotals[i] = Num(0)
          ELSE /\ \E i \in 1..Len(records) : CategoryKey(records[i]) = top
               /\ \A i \in 1..Len(records) :
                    LET key == CategoryKey(records[i])
                    IN /\ CategoryCount(records, key) <= CategoryCount(records, top)
                       /\ CategoryCount(records, key) = CategoryCount(records, top)
                            => FirstOf(records, top) <= FirstOf(records, key)

\* C17: a submission of a form that fails validation, in add mode or in edit
\* mode, leaves the in-memory and the persisted collection as they were and the
\* form in the mode, and on the edit id, it was in.
C17_RejectedSubmit ==
  [][(/\ event'.name = "submit"
      /\ validateForm(Trim(form.desc), form.amount, Trim(form.category), form.date)
           # "null")
       => /\ _records' = _records
          /\ stored' = stored
          /\ form'.editId = form.editId]_vars

\* A submission in edit mode was rejected on a non-empty collection.
C17_Witness ==
  /\ event.name = "submit"
  /\ event.msg = "error"
  /\ form.editId # Undef
  /\ Len(_records) > 0

\* C18: init leaves the in-memory and the persisted collection as they are
\* when the collection loaded at startup is not empty, and when the fetch or
\* the parse of the seed fails it completes with an empty collection.
C18_InitSeedsOnlyEmpty ==
  [][last'.op \in {"initStart", "init"}
       => /\ Len(_records) > 0
               => (_records' = _records /\ stored' = stored /\ pc' = "ready")
          /\ last'.op = "init" => pc' = "ready"
          /\ (last'.op = "init" /\ last'.retKind = "failed")
               => (_records' = <<>> /\ stored' = stored)]_vars

\* init has completed after a failed fetch, over persisted text that is not a
\* list.
C18_Witness ==
  /\ last.op = "init"
  /\ last.retKind = "failed"
  /\ pc = "ready"
  /\ _records = <<>>
  /\ stored.kind = "garbage"

\* C19: every UI handler runs, and the page is bound and rendered, only once
\* init has completed, and init never resumes on a page that is bound: the
\* seed cannot replace a record the user added.
C19_InitBarrier ==
  [][/\ event'.name # "none" => pc = "ready"
     /\ view'.bound => pc' = "ready"
     /\ last'.op = "init" => ~view.bound]_vars

\* The user added the first record of a collection that init, suspended on the
\* fetch, had left empty.
C19_Witness ==
  /\ view.bound
  /\ event.name = "submit"
  /\ event.msg = "added"
  /\ Len(_records) = 1
  /\ last.ret.id = _records[1].id

\* C21: whenever the search box holds a valid non-empty pattern and no
\* debounced search is pending, every record of the rendered list matches the
\* pattern in its description, category or date.
C21_ShownMatch ==
  LET re == compileRegex(view.query, {"i"})
  IN (view.bound /\ ~re.null /\ ~view.pending)
       => filterRecords(view.shown, re) = view.shown

\* C22: a form submission in edit mode that reports 'Record updated
\* successfully!' leaves in the store a record with the form's edit id whose
\* description, amount, category and date are the submitted values.
C22_UpdateReported ==
  [][(event'.name = "submit" /\ event'.msg = "updated")
       => \E i \in 1..Len(_records') :
            /\ _records'[i].id = form.editId
            /\ _records'[i].description = Submitted.description
            /\ _records'[i].amount = Submitted.amount
            /\ _records'[i].category = Submitted.category
            /\ _records'[i].date = Submitted.date]_vars

\* C23: when a session ended with a persisted deleteRecord and the page is
\* loaded again, the collection after init is the collection the session ended
\* with (the case in which module evaluation read that collection back from
\* localStorage unaltered).
C23_RestartKeepsDeletions ==
  [][(pc # "ready" /\ pc' = "ready" /\ ended.deleted /\ _records = ended.records)
       => _records' = ended.records]_vars

====
